---- MODULE Spec2Model ----
(***************************************************************************)
(* labinstruments: the SCPI serial protocol engine (SCPISerialInstrument)  *)
(* and the instrument classes built on it, as a state machine.             *)
(*                                                                         *)
(* Text is modelled as a sequence of one-character strings, so that        *)
(* str.lower, the `in` operator, str.rstrip and repr are computed the way  *)
(* Python computes them.  SCPI command mnemonics, which the engine only    *)
(* passes through, are TLA+ strings.                                       *)
(*                                                                         *)
(* One connection object talks to one instrument.  Every engine call is    *)
(* one action; the two polling waits are one action per loop iteration.    *)
(* The instrument (the environment) keeps an error queue, answers queries  *)
(* in FIFO order, and is prompt, slow (a reply may miss the read timeout   *)
(* and arrive later) or mute (it never answers).                           *)
(***************************************************************************)
EXTENDS Integers, Sequences, FiniteSets, TLC

(***************************************************************************)
(* Bounds of the model.                                                    *)
(***************************************************************************)
\* Entries the instrument's error queue holds at most.
MaxErrQ == 2
\* Reply lines in flight (on the wire or in the host's input buffer).
MaxLines == 2
\* I/O events recorded per engine call; later events are not recorded.
MaxIO == 8
\* Largest wait timeout a caller passes, in read-timeout intervals.
MaxTimeout == 1
\* Sleeps of a buffered acquisition that are recorded.
MaxSleeps == 9
\* Runs of equal samples in a sample list.
MaxRuns == 2
\* Characters of a command text that is echoed.
MaxText == 3

(***************************************************************************)
(* Text constants of the source and of the instrument's replies.           *)
(***************************************************************************)
SYST_ERR_SAYS ==
    <<"T", "h", "e", " ", "i", "n", "s", "t", "r", "u", "m", "e", "n", "t",
      " ", "s", "a", "y", "s", ":", " ">>
Q_NO_ERROR ==
    <<"\"", "N", "o", " ", "e", "r", "r", "o", "r", "\"">>
AGILENT_NO_ERROR ==
    <<"+", "0", ",", "\"", "N", "o", " ", "e", "r", "r", "o", "r", "\"">>
NOT_MANUFACTURED_BY ==
    <<"N", "o", "t", " ", "c", "o", "n", "n", "e", "c", "t", "e", "d", " ",
      "w", "i", "t", "h", " ", "a", "n", " ", "i", "n", "s", "t", "r", "u",
      "m", "e", "n", "t", " ", "m", "a", "n", "u", "f", "a", "c", "t", "u",
      "r", "e", "d", " ", "b", "y", " ">>
NOT_MODEL ==
    <<"N", "o", "t", " ", "c", "o", "n", "n", "e", "c", "t", "e", "d", " ",
      "w", "i", "t", "h", " ", "a", "n", " ", "i", "n", "s", "t", "r", "u",
      "m", "e", "n", "t", " ", "m", "o", "d", "e", "l", " ">>
NOT_SERIAL_NUMBER ==
    <<"N", "o", "t", " ", "c", "o", "n", "n", "e", "c", "t", "e", "d", " ",
      "w", "i", "t", "h", " ", "a", "n", " ", "i", "n", "s", "t", "r", "u",
      "m", "e", "n", "t", " ", "w", "i", "t", "h", " ", "s", "e", "r", "i",
      "a", "l", " ", "n", "u", "m", "b", "e", "r", " ">>
I_AM_CONNECTED_WITH ==
    <<",", " ", "I", " ", "a", "m", " ", "c", "o", "n", "n", "e", "c", "t",
      "e", "d", " ", "w", "i", "t", "h", " ">>
DOT_SPACE ==
    <<".", " ">>
TIMEOUT_WAITING ==
    <<"T", "i", "m", "e", "o", "u", "t", " ", "w", "a", "i", "t", "i", "n",
      "g", " ", "f", "o", "r", " ", "e", "x", "e", "c", "u", "t", "i", "o",
      "n", ".">>
TIMEOUT_TRIGGER ==
    <<"T", "i", "m", "e", "o", "u", "t", " ", "e", "x", "p", "i", "r", "e",
      "d", " ", "w", "h", "i", "l", "e", " ", "w", "a", "i", "t", "i", "n",
      "g", " ", "f", "o", "r", " ", "t", "h", "e", " ", "A", "g", "i", "l",
      "e", "n", "t", " ", "3", "3", "2", "2", "0", "A", " ", "t", "o", " ",
      "f", "i", "n", "i", "s", "h", " ", "t", "h", "e", " ", "t", "r", "i",
      "g", "g", "e", "r", "i", "n", "g", ".">>
NEWLINE ==
    <<"\n">>
AGILENT ==
    <<"A", "g", "i", "l", "e", "n", "t">>
MODEL_33250A ==
    <<"3", "3", "2", "5", "0", "A">>
KEITHLEY ==
    <<"K", "e", "i", "t", "h", "l", "e", "y">>
MODEL_2420 ==
    <<"2", "4", "2", "0">>
ReplyNoErrorPlain ==
    <<"0", ",", "\"", "N", "o", " ", "e", "r", "r", "o", "r", "\"">>
ReplyNoErrorSigned ==
    <<"+", "0", ",", "\"", "N", "o", " ", "e", "r", "r", "o", "r", "\"">>
ReplySyntaxError ==
    <<"-", "1", ",", "\"", "S", "y", "n", "t", "a", "x", " ", "e", "r", "r",
      "o", "r", "\"">>
ReplyOpc ==
    <<"1">>
ReplyFreq ==
    <<"1", ".", "5">>
IdnAgilent ==
    <<"A", "G", "I", "L", "E", "N", "T", ",", "3", "3", "2", "5", "0", "A",
      ",", "S", "N", "7">>
IdnKeithley ==
    <<"K", "E", "I", "T", "H", "L", "E", "Y", ",", "2", "4", "2", "0", ",",
      "S", "N", "7">>
SerialSN7 ==
    <<"s", "n", "7">>
SerialSN9 ==
    <<"s", "n", "9">>
\* Keithley2700.measure_N_samples_using_the_buffer: its error texts.
TIMEOUT_MEASURING ==
    <<"T", "i", "m", "e", "o", "u", "t", " ", "m", "e", "a", "s", "u", "r",
      "i", "n", "g", " ", "n", "_", "s", "a", "m", "p", "l", "e", "s", "=">>
COULD_NOT_GET ==
    <<"C", "o", "u", "l", "d", " ", "n", "o", "t", " ", "g", "e", "t", " ",
      "t", "h", "e", " ", "r", "e", "q", "u", "e", "s", "t", "e", "d", " ",
      "n", "u", "m", "b", "e", "r", " ", "o", "f", " ", "s", "a", "m", "p",
      "l", "e", "s", " ", "f", "r", "o", "m", " ", "t", "h", "e", " ", "i",
      "n", "s", "t", "r", "u", "m", "e", "n", "t", ".", " ", "R", "e", "q",
      "u", "e", "s", "t", "e", "d", " ", "n", "u", "m", "b", "e", "r", " ",
      "w", "a", "s", " ", "n", "_", "s", "a", "m", "p", "l", "e", "s", "=">>
WHILE_RETRIEVED ==
    <<" ", "w", "h", "i", "l", "e", " ", "t", "h", "e", " ", "n", "u", "m",
      "b", "e", "r", " ", "o", "f", " ", "r", "e", "t", "r", "i", "e", "v",
      "e", "d", " ", "s", "a", "m", "p", "l", "e", "s", " ", "i", "s", " ">>
\* A reading as the instrument sends it.
ReplyReading ==
    <<"1", ".", "5">>
\* Agilent33250A (labinstruments/instruments): texts of the waveform
\* loaders.
XONXOFF_ENABLED ==
    <<"C", "a", "n", "n", "o", "t", " ", "s", "e", "n", "d", " ", "b", "i",
      "n", "a", "r", "y", " ", "d", "a", "t", "a", " ", "w", "h", "e", "n",
      " ", "X", "O", "N", "/", "X", "O", "F", "F", " ", "h", "a", "n", "d",
      "s", "h", "a", "k", "e", " ", "i", "s", " ", "e", "n", "a", "b", "l",
      "e", "d", ",", " ", "s", "e", "e", " ", "[", "t", "h", "e", " ", "u",
      "s", "e", "r", " ", "m", "a", "n", "u", "a", "l", " ", "o", "n", " ",
      "p", "a", "g", "e", " ", "2", "0", "1", "]", "(", "h", "t", "t", "p",
      "s", ":", "/", "/", "w", "w", "w", ".", "k", "e", "y", "s", "i", "g",
      "h", "t", ".", "c", "o", "m", "/", "s", "e", "/", "e", "n", "/", "a",
      "s", "s", "e", "t", "s", "/", "9", "0", "1", "8", "-", "0", "3", "9",
      "2", "5", "/", "u", "s", "e", "r", "-", "m", "a", "n", "u", "a", "l",
      "s", "/", "9", "0", "1", "8", "-", "0", "3", "9", "2", "5", ".", "p",
      "d", "f", "?", "s", "u", "c", "c", "e", "s", "s", "=", "t", "r", "u",
      "e", "#", "p", "a", "g", "e", "=", "2", "0", "2", ")", ".", " ">>
PARITY_NOT_NONE ==
    <<"C", "a", "n", "n", "o", "t", " ", "s", "e", "n", "d", " ", "b", "i",
      "n", "a", "r", "y", " ", "d", "a", "t", "a", " ", "w", "h", "e", "n",
      " ", "p", "a", "r", "i", "t", "y", " ", "i", "s", " ", "n", "o", "t",
      " ", "\"", "n", "o", "n", "e", "\"", ",", " ", "s", "e", "e", " ",
      "[", "t", "h", "e", " ", "u", "s", "e", "r", " ", "m", "a", "n", "u",
      "a", "l", " ", "o", "n", " ", "p", "a", "g", "e", " ", "2", "0", "1",
      "]", "(", "h", "t", "t", "p", "s", ":", "/", "/", "w", "w", "w", ".",
      "k", "e", "y", "s", "i", "g", "h", "t", ".", "c", "o", "m", "/", "s",
      "e", "/", "e", "n", "/", "a", "s", "s", "e", "t", "s", "/", "9", "0",
      "1", "8", "-", "0", "3", "9", "2", "5", "/", "u", "s", "e", "r", "-",
      "m", "a", "n", "u", "a", "l", "s", "/", "9", "0", "1", "8", "-", "0",
      "3", "9", "2", "5", ".", "p", "d", "f", "?", "s", "u", "c", "c", "e",
      "s", "s", "=", "t", "r", "u", "e", "#", "p", "a", "g", "e", "=", "2",
      "0", "2", ")", ".", " ">>
DATA_VOLATILE ==
    <<"D", "A", "T", "A", " ", "V", "O", "L", "A", "T", "I", "L", "E", ",",
      " ">>
DATA_DAC_VOLATILE ==
    <<"D", "A", "T", "A", ":", "D", "A", "C", " ", "V", "O", "L", "A", "T",
      "I", "L", "E", ",", " ", "#", "6">>
NO_ERROR ==
    <<"N", "o", " ", "e", "r", "r", "o", "r">>

\* Time is counted in hundredths of a second. The transport's read timeout
\* is timeout = 1 in the examples' Serial_kwargs.
ReadTimeout == 100
\* reset(sleep_time = 2)
RESET_SLEEP_TIME == 200
\* Elapsed time is recorded up to this value (time()-start > timeout is
\* decided below it, whatever the timeout).
MaxElapsed == MaxTimeout * ReadTimeout + RESET_SLEEP_TIME + ReadTimeout

\* message_termination_instrument_to_PC = '\n'
message_termination_instrument_to_PC == NEWLINE
\* message_termination_PC_to_instrument = '\n'
message_termination_PC_to_instrument == NEWLINE

(***************************************************************************)
(* Python's str operations.                                                *)
(***************************************************************************)
\* The characters str.lower() changes (ASCII).
LOWERCASE ==
    ("A" :> "a") @@ ("B" :> "b") @@ ("C" :> "c") @@ ("D" :> "d") @@
    ("E" :> "e") @@ ("F" :> "f") @@ ("G" :> "g") @@ ("H" :> "h") @@
    ("I" :> "i") @@ ("J" :> "j") @@ ("K" :> "k") @@ ("L" :> "l") @@
    ("M" :> "m") @@ ("N" :> "n") @@ ("O" :> "o") @@ ("P" :> "p") @@
    ("Q" :> "q") @@ ("R" :> "r") @@ ("S" :> "s") @@ ("T" :> "t") @@
    ("U" :> "u") @@ ("V" :> "v") @@ ("W" :> "w") @@ ("X" :> "x") @@
    ("Y" :> "y") @@ ("Z" :> "z")

\* One character of str.lower().
LowerChar(c) == IF c \in DOMAIN LOWERCASE THEN LOWERCASE[c] ELSE c

\* str.lower()
Lower(s) == [i \in 1..Len(s) |-> LowerChar(s[i])]

\* a in b, for two str
IsSubstring(a, b) ==
    \E i \in 0..(Len(b) - Len(a)) : SubSeq(b, i + 1, i + Len(a)) = a

\* str.rstrip(chars): drops every trailing character that occurs in chars.
RECURSIVE RStrip(_, _)
RStrip(s, chars) ==
    IF s # <<>> /\ (\E i \in 1..Len(chars) : chars[i] = s[Len(s)])
    THEN RStrip(SubSeq(s, 1, Len(s) - 1), chars)
    ELSE s

\* send_this = cmd + self._message_termination_PC_to_instrument
Encode(cmd, termination) == cmd \o termination

\* response.decode('ASCII').rstrip(self._message_termination_instrument_to_PC)
Decode(response, termination) == RStrip(response, termination)

HasChar(s, c) == \E i \in 1..Len(s) : s[i] = c

RECURSIVE Escaped(_, _)
Escaped(s, quote) ==
    IF s = <<>> THEN <<>>
    ELSE LET c == Head(s)
             e == CASE c = "\\" -> <<"\\", "\\">>
                    [] c = quote -> <<"\\", c>>
                    [] c = "\n" -> <<"\\", "n">>
                    [] c = "\r" -> <<"\\", "r">>
                    [] c = "\t" -> <<"\\", "t">>
                    [] OTHER -> <<c>>
         IN  e \o Escaped(Tail(s), quote)

\* repr() of a str of printable ASCII: single quotes, unless the text holds
\* a single quote and no double quote.
Repr(s) ==
    LET quote == IF HasChar(s, "'") /\ ~HasChar(s, "\"") THEN "\"" ELSE "'"
    IN  <<quote>> \o Escaped(s, quote) \o <<quote>>

(***************************************************************************)
(* Values.                                                                 *)
(***************************************************************************)
\* Optional[str]: <<>> is None, <<s>> is the str s.
\* str(n), and f'{n:0{width}d}', of a natural number n.
DIGITS == <<"0", "1", "2", "3", "4", "5", "6", "7", "8", "9">>

RECURSIVE Str(_)
Str(n) ==
    IF n < 10 THEN <<DIGITS[n + 1]>>
    ELSE Str(n \div 10) \o <<DIGITS[(n % 10) + 1]>>

RECURSIVE ZeroPadded(_, _)
ZeroPadded(n, width) ==
    LET digits == Str(n)
    IN  IF Len(digits) >= width THEN digits
        ELSE <<"0">> \o ZeroPadded(n, width - 1)

\* int(s) of a string of decimal digits; IsInt(s) is false where int(s)
\* raises ValueError.
IsInt(s) == s # <<>> /\ \A i \in 1..Len(s) : \E d \in 1..10 : DIGITS[d] = s[i]

RECURSIVE int(_)
int(s) ==
    IF s = <<>> THEN 0
    ELSE 10 * int(SubSeq(s, 1, Len(s) - 1))
         + (CHOOSE d \in 0..9 : DIGITS[d + 1] = s[Len(s)])

\* s.split(sep) for a one-character sep, and sep.join(fields).
RECURSIVE Split(_, _)
Split(s, sep) ==
    IF \A i \in 1..Len(s) : s[i] # sep THEN <<s>>
    ELSE LET i == CHOOSE k \in 1..Len(s) :
                     s[k] = sep /\ \A j \in 1..(k - 1) : s[j] # sep
         IN  <<SubSeq(s, 1, i - 1)>> \o Split(SubSeq(s, i + 1, Len(s)), sep)

RECURSIVE Join(_, _)
Join(fields, sep) ==
    IF fields = <<>> THEN <<>>
    ELSE IF Len(fields) = 1 THEN fields[1]
    ELSE fields[1] \o <<sep>> \o Join(Tail(fields), sep)

None == <<>>
Some(s) == <<s>>

NoException == [type |-> "none", site |-> "", text |-> <<>>]
RuntimeError(site, text) == [type |-> "RuntimeError", site |-> site, text |-> text]
ZeroDivisionError(site) ==
    [type |-> "ZeroDivisionError", site |-> site, text |-> <<>>]
ValueError(site) == [type |-> "ValueError", site |-> site, text |-> <<>>]
TimeoutError(site, text) == [type |-> "TimeoutError", site |-> site, text |-> text]

\* What a call leaves: the world after it, the exception it raised (if
\* any) and the value it returned.
Returned(w, ret) == [w |-> w, exc |-> NoException, ret |-> ret]
Raised(w, exc) == [w |-> w, exc |-> exc, ret |-> None]

\* Inside a polling loop: the loop goes round once more.
Continue(w) == [w |-> w, exc |-> NoException, ret |-> None, loop |-> TRUE]
Continues(r) == "loop" \in DOMAIN r

\* S; F : F runs in every outcome of S that did not raise, an exception of
\* S propagates.
Then(S, F(_)) == UNION {IF r.exc = NoException THEN F(r) ELSE {r} : r \in S}

Classes ==
    {"SCPISerialInstrument", "Agilent33250A_legacy", "Agilent33250A",
     "Keithley2420"}

VARIABLES
    cls,        \* the class of the connection object
    inst,       \* the instrument: [kind, noerror, idn]
    pc,         \* "new", "ready", "failed", or the polling wait in progress
    errq,       \* the instrument's error queue
    inbuf,      \* lines in the serial port's input buffer
    wire,       \* replies the instrument has not delivered yet
    self_idn,   \* the attribute self._idn: None until the first fetch
    io,         \* the transport events of the call in progress or last made
    last,       \* the call last made and how it ended
    poll,       \* the polling wait in progress: [timeout, elapsed]
    port,       \* self.serial_port: [xonxoff, parity, is_open]
    trac        \* the instrument's reading buffer: [stored, growth, points]

vars ==
    <<cls, inst, pc, errq, inbuf, wire, self_idn, io, last, poll, port, trac>>

\* The part of the state a call works on; t is the time the call has taken.
World ==
    [errq |-> errq, inbuf |-> inbuf, wire |-> wire, idn |-> self_idn,
     io |-> <<>>, t |-> 0, trac |-> trac]

Tx(cmd) == [dir |-> "tx", cmd |-> cmd, line |-> <<>>]
Rx(line) == [dir |-> "rx", cmd |-> "", line |-> line]
Log(w, e) == IF Len(w.io) < MaxIO THEN [w EXCEPT !.io = Append(@, e)] ELSE w
Elapse(w, d) ==
    [w EXCEPT !.t = IF @ + d > MaxElapsed THEN MaxElapsed ELSE @ + d]

(***************************************************************************)
(* The instrument.                                                         *)
(***************************************************************************)
NoErrorReply ==
    IF inst.noerror = "plain" THEN ReplyNoErrorPlain ELSE ReplyNoErrorSigned

\* The reading buffer of the instrument, in bytes; a reading takes 16. It
\* gains trac.growth bytes between two TRAC:FREE? queries, which reports
\* the bytes free and the bytes in use.
TRAC_BYTES == 160

Min(a, b) == IF a < b THEN a ELSE b

\* n_samples of measure_N_samples_using_the_buffer, and the command that
\* tells it to the instrument.
NSamples == {1, 5}
TRAC_POINTS(n_samples) == "TRAC:POINTS " \o ToString(n_samples)

InstrumentReplies(w, text) ==
    LET line == text \o message_termination_instrument_to_PC
    IN  CASE inst.kind = "mute" -> w
          [] inst.kind = "prompt" -> [w EXCEPT !.inbuf = Append(@, line)]
          [] OTHER -> [w EXCEPT !.wire = Append(@, line)]

InstrumentReceives(w, cmd) ==
    CASE cmd = "SYST:ERR?" ->
            IF w.errq = <<>> THEN InstrumentReplies(w, NoErrorReply)
            ELSE InstrumentReplies([w EXCEPT !.errq = Tail(@)], Head(w.errq))
      [] cmd = "*IDN?" -> InstrumentReplies(w, inst.idn)
      [] cmd = "*OPC?" -> InstrumentReplies(w, ReplyOpc)
      [] cmd = "FREQ?" -> InstrumentReplies(w, ReplyFreq)
      [] cmd = "*CLS" -> [w EXCEPT !.errq = <<>>]
      [] cmd = "TRAC:CLEAR" -> [w EXCEPT !.trac.stored = 0]
      [] cmd \in {TRAC_POINTS(n) : n \in NSamples} ->
            [w EXCEPT !.trac.points =
                        CHOOSE n \in NSamples : cmd = TRAC_POINTS(n)]
      [] cmd = "TRAC:FREE?" ->
            LET used == Min(w.trac.stored + w.trac.growth,
                            16 * w.trac.points)
            IN  InstrumentReplies([w EXCEPT !.trac.stored = used],
                    Str(TRAC_BYTES - used) \o <<",">> \o Str(used))
      [] cmd = "TRAC:DATA?" ->
            InstrumentReplies(w,
                Join([i \in 1..(w.trac.stored \div 16) |-> ReplyReading],
                     ","))
      [] cmd = "FUNC FOO" -> [w EXCEPT !.errq = Append(@, ReplySyntaxError)]
      [] OTHER -> w

(***************************************************************************)
(* SCPISerialInstrument: the engine.                                       *)
(***************************************************************************)
write_without_checking_errors(w, cmd) ==
    InstrumentReceives(Log(w, Tx(cmd)), cmd)

\* serial_port.readline(): the next line, or b'' when the read timeout
\* expires first.
Readline(w) ==
    LET timeout == [w |-> Elapse(w, ReadTimeout), line |-> <<>>]
    IN  IF w.inbuf # <<>>
        THEN {[w |-> [w EXCEPT !.inbuf = Tail(@)], line |-> Head(w.inbuf)]}
        ELSE IF w.wire # <<>>
        THEN {[w |-> [w EXCEPT !.wire = Tail(@)], line |-> Head(w.wire)],
              timeout}
        ELSE {timeout}

read_without_checking_errors(w) ==
    {LET response == Decode(x.line, message_termination_instrument_to_PC)
     IN  Returned(Log(x.w, Rx(response)), response) : x \in Readline(w)}

query_without_checking_errors(w, cmd) ==
    read_without_checking_errors(write_without_checking_errors(w, cmd))

SCPISerialInstrument_check_whether_error(w) ==
    {IF ~IsSubstring(Lower(Q_NO_ERROR), Lower(q.ret))
     THEN Raised(q.w, RuntimeError("check_whether_error",
                                   SYST_ERR_SAYS \o Repr(q.ret)))
     ELSE Returned(q.w, None)
     : q \in query_without_checking_errors(w, "SYST:ERR?")}

Agilent33250A_legacy_check_whether_error(w) ==
    {IF q.ret # AGILENT_NO_ERROR
     THEN Raised(q.w, RuntimeError("check_whether_error",
                                   SYST_ERR_SAYS \o q.ret))
     ELSE Returned(q.w, None)
     : q \in query_without_checking_errors(w, "SYST:ERR?")}

\* Method resolution: Agilent33250A of labinstruments/Agilent33250A.py
\* overrides check_whether_error, the other classes inherit it.
check_whether_error(w) ==
    IF cls = "Agilent33250A_legacy"
    THEN Agilent33250A_legacy_check_whether_error(w)
    ELSE SCPISerialInstrument_check_whether_error(w)

\* write, were it to send a rejected command once more.
write_resending_rejected(w, cmd) ==
    UNION {IF r.exc = NoException THEN {r}
           ELSE check_whether_error(write_without_checking_errors(r.w, cmd))
           : r \in check_whether_error(write_without_checking_errors(w, cmd))}

write(w, cmd) ==
    check_whether_error(write_without_checking_errors(w, cmd))

read(w) ==
    Then(read_without_checking_errors(w),
         LAMBDA r : Then(check_whether_error(r.w),
                         LAMBDA c : {Returned(c.w, r.ret)}))

\* query, were it to check for errors before it reads the response.
query_checking_before_reading(w, cmd) ==
    Then(check_whether_error(write_without_checking_errors(w, cmd)),
         LAMBDA c : read_without_checking_errors(c.w))

query(w, cmd) ==
    Then(read_without_checking_errors(write_without_checking_errors(w, cmd)),
         LAMBDA r : Then(check_whether_error(r.w),
                         LAMBDA c : {Returned(c.w, r.ret)}))

\* idn, were it to ask the instrument on every access.
idn_asking_every_time(w) ==
    Then(query(w, "*IDN?"),
         LAMBDA q : {Returned([q.w EXCEPT !.idn = Some(q.ret)], q.ret)})

idn(w) ==
    IF w.idn = None
    THEN Then(query(w, "*IDN?"),
              LAMBDA q : {Returned([q.w EXCEPT !.idn = Some(q.ret)], q.ret)})
    ELSE {Returned(w, w.idn[1])}

\* reset, were it to send *RST with the error-checked write.
reset_checking_errors(w) ==
    Then(write(w, "*RST"),
         LAMBDA r : {Returned(Elapse(r.w, RESET_SLEEP_TIME), None)})

reset(w) ==
    {Returned(Elapse(write_without_checking_errors(w, "*RST"),
                     RESET_SLEEP_TIME), None)}

\* clear_status, were it to send *CLS without the error check.
clear_status_without_checking_errors(w) ==
    {Returned(write_without_checking_errors(w, "*CLS"), None)}

clear_status(w) == write(w, "*CLS")

wait(w) == write(w, "*WAI")

(***************************************************************************)
(* Agilent33250A: loading an arbitrary waveform. A list of samples is a    *)
(* sequence of runs [value, count]: count samples of that value in a row.  *)
(***************************************************************************)
MEMORY_SIZE == 65536

\* serial.PARITY_NONE, serial.PARITY_EVEN
PARITY_NONE == "N"
PARITY_EVEN == "E"

\* The Serial_kwargs of the examples: no xonxoff, no parity argument.
Serial_kwargs == [xonxoff |-> FALSE, parity |-> PARITY_NONE, is_open |-> TRUE]

Run(value, count) == [value |-> value, count |-> count]

\* len(samples)
RECURSIVE len(_)
len(samples) ==
    IF samples = <<>> THEN 0 ELSE samples[1].count + len(Tail(samples))

\* to_bytes, were the byte order little-endian.
to_bytes_little_endian(s) ==
    LET v == (s + 65536) % 65536 IN <<v % 256, v \div 256>>

\* s.to_bytes(length=2, byteorder='big', signed=True), for a sample the
\* range check has let through.
to_bytes(s) ==
    LET v == (s + 65536) % 65536 IN <<v \div 256, v % 256>>

\* serial_port.write(bytes) of a message that carries samples: line is its
\* text, data what follows the text.
TxData(cmd, text, data) ==
    [dir |-> "tx", cmd |-> cmd, line |-> text, data |-> data]

\* write_without_checking_errors('DATA VOLATILE, ' + ', '.join(...)): each
\* sample stands for its str().
write_samples(w, samples) ==
    InstrumentReceives(
        Log(w, TxData("DATA VOLATILE", DATA_VOLATILE,
                      [samples |-> samples,
                       termination |-> message_termination_PC_to_instrument])),
        "DATA VOLATILE")

\* Agilent33250A.load_arbitrary_waveform of labinstruments/Agilent33250A.py
load_arbitrary_waveform(w, samples) ==
    check_whether_error(
        write_without_checking_errors(write_samples(w, samples), "*WAI"))

load_arbitrary_waveform_samples(w, samples) ==
    IF len(samples) > MEMORY_SIZE
    THEN {Raised(w, ValueError("load_arbitrary_waveform_samples"))}
    ELSE check_whether_error(
            write_without_checking_errors(write_samples(w, samples), "*WAI"))

\* The binary loader, were it to look at the serial port only after it has
\* set the byte order.
load_arbitrary_waveform_samples_in_binary_format_checking_late(w, p, samples) ==
    LET site == "load_arbitrary_waveform_samples_in_binary_format"
    IN  Then(write(w, "FORM:BORD NORM"),
        LAMBDA r :
            IF p.xonxoff = TRUE
            THEN {Raised(r.w, RuntimeError(site, XONXOFF_ENABLED))}
            ELSE IF p.parity # PARITY_NONE
            THEN {Raised(r.w, RuntimeError(site, PARITY_NOT_NONE))}
            ELSE {Returned(r.w, None)})

\* The samples are integers here, so isinstance(s, int) holds for each.
load_arbitrary_waveform_samples_in_binary_format(w, p, samples) ==
    LET site == "load_arbitrary_waveform_samples_in_binary_format"
    IN
    IF len(samples) > MEMORY_SIZE THEN {Raised(w, ValueError(site))}
    ELSE IF p.xonxoff = TRUE
    THEN {Raised(w, RuntimeError(site, XONXOFF_ENABLED))}
    ELSE IF p.parity # PARITY_NONE
    THEN {Raised(w, RuntimeError(site, PARITY_NOT_NONE))}
    ELSE IF \E i \in 1..Len(samples) :
                ~(-2047 <= samples[i].value /\ samples[i].value <= 2047)
    THEN {Raised(w, ValueError(site))}
    ELSE
    Then(write(w, "FORM:BORD NORM"),
    LAMBDA r :
        LET bytes_per_sample == 2
            n_bytes_of_data == bytes_per_sample * len(samples)
            text == DATA_DAC_VOLATILE \o ZeroPadded(n_bytes_of_data, 6)
            payload == [i \in 1..Len(samples) |->
                            Run(to_bytes(samples[i].value), samples[i].count)]
            sent == InstrumentReceives(
                        Log(Elapse(r.w, 1),
                            TxData("DATA:DAC VOLATILE", text,
                                   [payload |-> payload,
                                    termination |->
                                      message_termination_PC_to_instrument])),
                        "DATA:DAC VOLATILE")
        IN  check_whether_error(Elapse(sent, 1)))

\* int(x) of the quotient a/b, b > 0: towards zero.
Truncated(a, b) == IF a >= 0 THEN a \div b ELSE -((-a) \div b)

Abs(x) == IF x < 0 THEN -x ELSE x

\* max(values) of a non-empty set of numbers.
Max(values) == CHOOSE m \in values : \A v \in values : v <= m

\* frequency = 100e3 as in the example; volt_pp and volt_offset are not
\* told apart.
APPLY_USER == "APPLY:user 1.000000e+05, <volt_pp>, 0.000000e+00"

apply(w) ==
    Then(write(w, "VOLT:UNIT VPP"), LAMBDA r : write(r.w, APPLY_USER))

\* The samples in volt are whole numbers of volts; a normalized sample is
\* the fraction [num, den].
configure_arbitrary_waveform(w, p, samples_in_volt, send_in_binary_format) ==
    LET site == "configure_arbitrary_waveform"
        volts == {Abs(samples_in_volt[i].value) :
                    i \in {j \in 1..Len(samples_in_volt) :
                                samples_in_volt[j].count > 0}}
    IN
    IF volts = {} THEN {Raised(w, ValueError(site))}
    ELSE IF Max(volts) = 0 THEN {Raised(w, ZeroDivisionError(site))}
    ELSE
    LET maximum_absolute_voltage == Max(volts)
        normalized(v) == [num |-> v, den |-> maximum_absolute_voltage]
        loaded ==
            IF send_in_binary_format = FALSE
            THEN load_arbitrary_waveform_samples(w,
                    [i \in 1..Len(samples_in_volt) |->
                        Run(normalized(samples_in_volt[i].value),
                            samples_in_volt[i].count)])
            ELSE load_arbitrary_waveform_samples_in_binary_format(w, p,
                    [i \in 1..Len(samples_in_volt) |->
                        Run(Truncated(samples_in_volt[i].value * 2047,
                                      maximum_absolute_voltage),
                            samples_in_volt[i].count)])
    IN  Then(loaded,
        LAMBDA r1 : Then(write(r1.w, "FUNC:USER volatile"),
        LAMBDA r2 : apply(r2.w)))

(***************************************************************************)
(* Keithley2700 (labinstruments/Keithley2700.py).                          *)
(***************************************************************************)
BYTES_PER_SAMPLE == 16

\* measure_kwargs of the example: what = 'resistance', range = 200,
\* resolution = 1.
CONF == "CONF:resistance 2.000000e+02, 1.000000e+00"

set_what_and_range_and_resolution(w) == write(w, CONF)

\* The calls of measure_N_samples_using_the_buffer before its loop.
measure_N_samples_using_the_buffer_setup(w, n_samples) ==
    Then(set_what_and_range_and_resolution(w),
    LAMBDA r1 : Then(write(r1.w, "INIT:CONTINUOUS off"),
    LAMBDA r2 : Then(write(r2.w, "TRAC:CLEAR"),
    LAMBDA r3 : Then(write(r3.w, "TRAC:CLE:AUTO on"),
    LAMBDA r4 : Then(write(r4.w, TRAC_POINTS(n_samples)),
    LAMBDA r5 : Then(write(r5.w, "TRAC:FEED sense"),
    LAMBDA r6 : Then(write(r6.w, "TRAC:FEED:CONTROL next"),
    LAMBDA r7 : write(r7.w, "INIT:CONTINUOUS on"))))))))

\* The calls of measure_N_samples_using_the_buffer after its loop. float(x)
\* raises ValueError on the empty string; a reading stands for its value.
measure_N_samples_using_the_buffer_data(w, n_samples) ==
    Then(write(w, "FORM:ELEM READ"),
    LAMBDA r1 : Then(query(r1.w, "TRAC:DATA?"),
    LAMBDA q :
        LET data == Split(q.ret, ",")
        IN  IF \E i \in 1..Len(data) : data[i] = <<>>
            THEN {Raised(q.w,
                         ValueError("measure_N_samples_using_the_buffer"))}
            ELSE IF Len(data) # n_samples
            THEN {Raised(q.w,
                    RuntimeError("measure_N_samples_using_the_buffer",
                        COULD_NOT_GET \o Str(n_samples) \o WHILE_RETRIEVED
                        \o Str(Len(data)) \o <<".", " ">>))}
            ELSE {Returned(q.w, data)}))

\* The sleep time, were it to double for ever.
NextSleeptime_never_capped(sleeptime) == sleeptime * 2

\* sleeptime = sleeptime*2 if sleeptime < 1 else sleeptime, in hundredths
\* of a second.
NextSleeptime(sleeptime) ==
    IF sleeptime < 100 THEN sleeptime * 2 ELSE sleeptime

\* One evaluation of the loop condition of
\* measure_N_samples_using_the_buffer and what follows it: the loop body,
\* or the rest of the method. w.t is time()-t_start.
measure_N_samples_using_the_buffer_iteration(w, timeout, n_samples, sleeptime) ==
    Then(query(w, "TRAC:FREE?"),
    LAMBDA q :
        LET field == Split(q.ret, ",")[Len(Split(q.ret, ","))]
        IN  IF ~IsInt(field)
            THEN {Raised(q.w,
                         ValueError("measure_N_samples_using_the_buffer"))}
            ELSE IF int(field) < n_samples * BYTES_PER_SAMPLE
            THEN IF timeout # None /\ q.w.t > timeout[1]
                 THEN {Raised(q.w,
                        RuntimeError("measure_N_samples_using_the_buffer",
                            TIMEOUT_MEASURING \o Str(n_samples)
                            \o <<".">>))}
                 ELSE {Continue(Elapse(q.w, sleeptime))}
            ELSE measure_N_samples_using_the_buffer_data(q.w, n_samples))

\* One of the three identity checks of __init__: nothing when no
\* expectation was given, else the expectation must occur in self.idn.
CheckIdentity(w, expected, site, text) ==
    IF expected = None THEN {Returned(w, None)}
    ELSE Then(idn(w),
              LAMBDA i :
                IF ~IsSubstring(Lower(expected[1]), Lower(i.ret))
                THEN Then(idn(i.w),
                          LAMBDA j :
                            {Raised(j.w,
                                    RuntimeError(site,
                                        text \o expected[1]
                                        \o I_AM_CONNECTED_WITH \o j.ret
                                        \o DOT_SPACE))})
                ELSE {Returned(i.w, None)})

\* __init__, were it to reset before it verifies the identity.
SCPISerialInstrument__init___resetting_first(w, a) ==
    Then(IF a.clear_status_upon_connection
         THEN clear_status(w) ELSE {Returned(w, None)},
    LAMBDA r0 :
    Then(IF a.reset_upon_connection
         THEN reset(r0.w) ELSE {Returned(r0.w, None)},
    LAMBDA r1 :
    Then(CheckIdentity(r1.w, a.instrument_manufacturer,
                       "instrument_manufacturer", NOT_MANUFACTURED_BY),
    LAMBDA r2 :
    Then(CheckIdentity(r2.w, a.instrument_model,
                       "instrument_model", NOT_MODEL),
    LAMBDA r3 :
    CheckIdentity(r3.w, a.instrument_serial_number,
                  "instrument_serial_number", NOT_SERIAL_NUMBER)))))

SCPISerialInstrument__init__(w, a) ==
    Then(IF a.clear_status_upon_connection
         THEN clear_status(w) ELSE {Returned(w, None)},
    LAMBDA r1 :
    Then(CheckIdentity(r1.w, a.instrument_manufacturer,
                       "instrument_manufacturer", NOT_MANUFACTURED_BY),
    LAMBDA r2 :
    Then(CheckIdentity(r2.w, a.instrument_model,
                       "instrument_model", NOT_MODEL),
    LAMBDA r3 :
    Then(CheckIdentity(r3.w, a.instrument_serial_number,
                       "instrument_serial_number", NOT_SERIAL_NUMBER),
    LAMBDA r4 :
    IF a.reset_upon_connection
    THEN reset(r4.w) ELSE {Returned(r4.w, None)}))))

\* The arguments SCPISerialInstrument.__init__ receives from the class's
\* own __init__.
InitArgs(a) ==
    CASE cls = "Agilent33250A" ->
            [a EXCEPT !.instrument_manufacturer = Some(AGILENT),
                      !.instrument_model = Some(MODEL_33250A)]
      [] cls = "Keithley2420" ->
            [a EXCEPT !.instrument_manufacturer = Some(KEITHLEY),
                      !.instrument_model = Some(MODEL_2420)]
      [] OTHER -> a

__init__(w, a) == SCPISerialInstrument__init__(w, InitArgs(a))

(***************************************************************************)
(* Inputs.                                                                 *)
(***************************************************************************)
\* Commands a caller sends: a valid setting, a setting the instrument
\* rejects (it queues an error), and a query.
UserCommands == {"FUNC SIN", "FUNC FOO", "FREQ?"}

Expectations(values) == {None} \cup {Some(v) : v \in values}

\* Keyword arguments a caller may pass; the two instrument classes of
\* labinstruments/instruments fix manufacturer and model themselves.
ConnectArgs ==
    [instrument_manufacturer :
        IF cls \in {"Agilent33250A", "Keithley2420"} THEN {None}
        ELSE Expectations({AGILENT}),
     instrument_model :
        IF cls \in {"Agilent33250A", "Keithley2420"} THEN {None}
        ELSE Expectations({MODEL_33250A}),
     instrument_serial_number : Expectations({SerialSN7, SerialSN9}),
     clear_status_upon_connection : BOOLEAN,
     reset_upon_connection : BOOLEAN]

NoArgs ==
    [instrument_manufacturer |-> None, instrument_model |-> None,
     instrument_serial_number |-> None,
     clear_status_upon_connection |-> FALSE,
     reset_upon_connection |-> FALSE]

\* The instruments a connection is opened to: prompt ones of either
\* generation (0,"No error" or +0,"No error") and either make, and one
\* that is slow and one that never answers.
Instruments ==
    [kind : {"prompt"}, noerror : {"plain", "signed"},
     idn : {IdnAgilent, IdnKeithley}]
    \cup [kind : {"slow", "mute"}, noerror : {"signed"}, idn : {IdnAgilent}]

\* Sample lists a caller passes: up to MaxRuns runs, each of one sample or
\* of as many samples as the instrument's memory holds. Volts are samples
\* in volt, Codes samples as binary codes (2048 is one too many).
Volts == {-2, 0, 3}
Codes == {-2047, -1, 0, 2047, 2048}

SampleLists(values) ==
    UNION {[1..n -> [value : values, count : {1, MEMORY_SIZE}]] :
            n \in 0..MaxRuns}

\* The serial ports a connection is opened on.
SerialPorts ==
    [xonxoff : BOOLEAN, parity : {PARITY_NONE, PARITY_EVEN},
     is_open : {FALSE}]

Timeouts == {None} \cup {Some(n * ReadTimeout) : n \in 0..MaxTimeout}

NoPoll == [timeout |-> None, elapsed |-> 0]

\* An instrument with no reading buffer in use.
NoTrac == [stored |-> 0, growth |-> 0, points |-> 0]

(***************************************************************************)
(* The state machine.                                                      *)
(***************************************************************************)
\* Before the connection is made: the instrument may hold an error.
Fresh ==
    /\ pc = "new"
    /\ errq \in {<<>>, <<ReplySyntaxError>>}
    /\ inbuf = <<>>
    /\ wire = <<>>
    /\ self_idn = None
    /\ io = <<>>
    /\ last = [op |-> "", cmd |-> "", args |-> NoArgs, timeout |-> None,
               quiet |-> TRUE, exc |-> NoException, ret |-> None, t |-> 0]
    /\ poll = NoPoll

Init ==
    /\ cls \in Classes
    /\ inst \in Instruments
    /\ port = [Serial_kwargs EXCEPT !.is_open = FALSE]
    /\ trac = NoTrac
    /\ Fresh

\* Nothing is pending between host and instrument: no queued error, no
\* unread reply.
Quiet == errq = <<>> /\ inbuf = <<>> /\ wire = <<>>

\* The lines a call may leave undelivered or unread: MaxLines, and one more
\* for an iteration of a polling wait, which asks the instrument again.
LineBound ==
    IF pc \in {"new", "ready", "failed"} THEN MaxLines ELSE MaxLines + 1

\* The call's outcome r becomes the state; last.quiet tells whether the
\* call started with nothing pending.
Commit(r, op, cmd, args, timeout) ==
    /\ Len(r.w.errq) <= MaxErrQ
    /\ Len(r.w.inbuf) + Len(r.w.wire) <= LineBound
    /\ errq' = r.w.errq
    /\ inbuf' = r.w.inbuf
    /\ wire' = r.w.wire
    /\ self_idn' = r.w.idn
    /\ trac' = r.w.trac
    /\ io' = r.w.io
    /\ last' = [op |-> op, cmd |-> cmd, args |-> args, timeout |-> timeout,
                quiet |-> IF pc = op THEN last.quiet ELSE Quiet,
                exc |-> r.exc, ret |-> r.ret, t |-> r.w.t]

\* A call that is one action: it starts and ends in "ready".
Call(S, op, cmd) ==
    /\ pc = "ready"
    /\ \E r \in S : Commit(r, op, cmd, NoArgs, None)
    /\ UNCHANGED <<cls, inst, pc, poll, port>>

Connect ==
    /\ pc = "new"
    /\ \E a \in ConnectArgs :
         \E r \in __init__(World, a) :
            /\ Commit(r, "__init__", "", InitArgs(a), None)
            /\ pc' = IF r.exc = NoException THEN "ready" ELSE "failed"
    /\ port' = [port EXCEPT !.is_open = TRUE]
    /\ UNCHANGED <<cls, inst, poll>>

Call_write_without_checking_errors ==
    \E cmd \in UserCommands :
        Call({Returned(write_without_checking_errors(World, cmd), None)},
             "write_without_checking_errors", cmd)

Call_read_without_checking_errors ==
    Call(read_without_checking_errors(World),
         "read_without_checking_errors", "")

Call_query_without_checking_errors ==
    \E cmd \in UserCommands :
        Call(query_without_checking_errors(World, cmd),
             "query_without_checking_errors", cmd)

Call_write ==
    \E cmd \in UserCommands : Call(write(World, cmd), "write", cmd)

Call_read == Call(read(World), "read", "")

Call_query ==
    \E cmd \in UserCommands : Call(query(World, cmd), "query", cmd)

Call_check_whether_error ==
    Call(check_whether_error(World), "check_whether_error", "")

Call_idn == Call(idn(World), "idn", "")

Call_reset == Call(reset(World), "reset", "")

Call_clear_status == Call(clear_status(World), "clear_status", "")

(***************************************************************************)
(* The polling waits: one action per loop iteration.                       *)
(***************************************************************************)
\* The world of the wait in progress: its events and its clock go on.
WorldInCall == [World EXCEPT !.io = io, !.t = poll.elapsed]

\* One iteration of the loop of wait_until_all_comands_have_been_executed;
\* w.t is time()-start.
wait_until_all_comands_have_been_executed_iteration(w, timeout) ==
    Then(read_without_checking_errors(w),
    LAMBDA x :
    Then(idn(x.w),
    LAMBDA i :
    IF x.ret = i.ret THEN {Returned(i.w, None)}
    ELSE IF timeout # None /\ i.w.t > timeout[1]
    THEN {Raised(i.w, RuntimeError(
                        "wait_until_all_comands_have_been_executed",
                        TIMEOUT_WAITING))}
    ELSE {Continue(i.w)}))

\* The should_stop argument of Agilent33250A.wait_for_trigger: a function
\* that returns this value whenever it is called.
ShouldStops == BOOLEAN

\* One iteration of the loop of Agilent33250A.wait_for_trigger
\* (labinstruments/Agilent33250A.py); w.t is time()-t0. The loop reads
\* timeout only: should_stop is a parameter the body never names.
wait_for_trigger_iteration(w, timeout) ==
    UNION {LET ready == r.exc = NoException /\ r.ret # <<>>
           IN  IF ready THEN {Returned(r.w, None)}
               ELSE IF timeout # None /\ r.w.t > timeout[1]
               THEN {Raised(r.w, TimeoutError("wait_for_trigger",
                                              TIMEOUT_TRIGGER))}
               ELSE {Continue(r.w)}
           : r \in read(w)}

\* The call goes on (the loop continues) or ends.
Step(r, op) ==
    /\ Commit(r, op, "", last.args, poll.timeout)
    /\ IF Continues(r)
       THEN pc' = op /\ poll' = [poll EXCEPT !.elapsed = r.w.t]
       ELSE pc' = "ready" /\ poll' = NoPoll
    /\ UNCHANGED <<cls, inst, port>>

Call_wait_until_all_comands_have_been_executed ==
    /\ pc = "ready"
    /\ \E timeout \in Timeouts :
        LET w == write_without_checking_errors(
                    write_without_checking_errors(World, "*WAI"), "*IDN?")
        IN  /\ Commit(Returned(w, None),
                      "wait_until_all_comands_have_been_executed", "",
                      NoArgs, timeout)
            /\ poll' = [timeout |-> timeout, elapsed |-> 0]
    /\ pc' = "wait_until_all_comands_have_been_executed"
    /\ UNCHANGED <<cls, inst, port>>

Loop_wait_until_all_comands_have_been_executed ==
    /\ pc = "wait_until_all_comands_have_been_executed"
    /\ \E r \in wait_until_all_comands_have_been_executed_iteration(
                    WorldInCall, poll.timeout) :
          Step(r, "wait_until_all_comands_have_been_executed")

Call_wait_for_trigger ==
    /\ pc = "ready"
    /\ cls = "Agilent33250A_legacy"
    /\ \E timeout \in Timeouts, should_stop \in ShouldStops :
        \E r \in write(World, "*OPC?") :
            /\ Commit(r, "wait_for_trigger", "",
                      [should_stop |-> should_stop], timeout)
            /\ IF r.exc = NoException
               THEN /\ pc' = "wait_for_trigger"
                    /\ poll' = [timeout |-> timeout, elapsed |-> 0]
               ELSE /\ pc' = "ready"
                    /\ poll' = NoPoll
    /\ UNCHANGED <<cls, inst, port>>

Loop_wait_for_trigger ==
    /\ pc = "wait_for_trigger"
    /\ \E r \in wait_for_trigger_iteration(WorldInCall, poll.timeout) :
          Step(r, "wait_for_trigger")

\* The polls are counted up to MaxSleeps + 1; past that the count keeps
\* alternating between two values, so that a poll is always a step.
OneMorePoll(polls) ==
    IF polls <= MaxSleeps + 1 THEN polls + 1 ELSE MaxSleeps + 1

\* measure_N_samples_using_the_buffer: poll.sleeps is the sleeps made so
\* far (the first MaxSleeps of them), poll.polls the TRAC:FREE? queries.
Call_measure_N_samples_using_the_buffer ==
    /\ pc = "ready"
    /\ cls = "Keithley2700"
    /\ \E n_samples \in NSamples, timeout \in Timeouts :
        \E r \in measure_N_samples_using_the_buffer_setup(World, n_samples) :
            /\ Commit(r, "measure_N_samples_using_the_buffer", "",
                      [n_samples |-> n_samples], timeout)
            /\ IF r.exc = NoException
               THEN /\ pc' = "measure_N_samples_using_the_buffer"
                    /\ poll' = [timeout |-> timeout, elapsed |-> 0,
                                sleeptime |-> 1, sleeps |-> <<>>,
                                polls |-> 0]
               ELSE /\ pc' = "ready"
                    /\ poll' = NoPoll
    /\ UNCHANGED <<cls, inst, port>>

Loop_measure_N_samples_using_the_buffer ==
    /\ pc = "measure_N_samples_using_the_buffer"
    /\ \E r \in measure_N_samples_using_the_buffer_iteration(
                    WorldInCall, poll.timeout, last.args.n_samples,
                    poll.sleeptime) :
          /\ Commit(r, "measure_N_samples_using_the_buffer", "", last.args,
                    poll.timeout)
          /\ IF Continues(r)
             THEN /\ pc' = "measure_N_samples_using_the_buffer"
                  /\ poll' = [poll EXCEPT
                        !.elapsed = r.w.t,
                        !.sleeptime = NextSleeptime(@),
                        !.sleeps = IF Len(@) < MaxSleeps
                                   THEN Append(@, poll.sleeptime) ELSE @,
                        !.polls = OneMorePoll(@)]
             ELSE /\ pc' = "ready"
                  /\ poll' = [poll EXCEPT
                        !.elapsed = r.w.t,
                        !.polls = OneMorePoll(@)]
    /\ UNCHANGED <<cls, inst, port>>

\* A call that is one action and whose arguments are recorded.
CallWith(S, op, args) ==
    /\ pc = "ready"
    /\ \E r \in S : Commit(r, op, "", args, None)
    /\ UNCHANGED <<cls, inst, pc, poll, port>>

Call_load_arbitrary_waveform ==
    /\ cls = "Agilent33250A_legacy"
    /\ \E samples \in SampleLists(Volts) :
          CallWith(load_arbitrary_waveform(World, samples),
                   "load_arbitrary_waveform", [samples |-> samples])

Call_load_arbitrary_waveform_samples ==
    /\ cls = "Agilent33250A"
    /\ \E samples \in SampleLists(Volts) :
          CallWith(load_arbitrary_waveform_samples(World, samples),
                   "load_arbitrary_waveform_samples", [samples |-> samples])

Call_load_arbitrary_waveform_samples_in_binary_format ==
    /\ cls = "Agilent33250A"
    /\ \E samples \in SampleLists(Codes) :
          CallWith(load_arbitrary_waveform_samples_in_binary_format(
                        World, port, samples),
                   "load_arbitrary_waveform_samples_in_binary_format",
                   [samples |-> samples])

Call_configure_arbitrary_waveform ==
    /\ cls = "Agilent33250A"
    /\ \E samples_in_volt \in SampleLists(Volts),
          send_in_binary_format \in BOOLEAN :
          CallWith(configure_arbitrary_waveform(
                        World, port, samples_in_volt, send_in_binary_format),
                   "configure_arbitrary_waveform",
                   [samples |-> samples_in_volt,
                    send_in_binary_format |-> send_in_binary_format])

\* A reply of a slow instrument reaches the host's input buffer.
Arrive ==
    /\ wire # <<>>
    /\ inbuf' = Append(inbuf, Head(wire))
    /\ wire' = Tail(wire)
    /\ UNCHANGED <<cls, inst, pc, errq, self_idn, io, last, poll, port, trac>>

Next ==
    \/ Connect
    \/ Call_write_without_checking_errors
    \/ Call_read_without_checking_errors
    \/ Call_query_without_checking_errors
    \/ Call_write
    \/ Call_read
    \/ Call_query
    \/ Call_check_whether_error
    \/ Call_idn
    \/ Call_reset
    \/ Call_clear_status
    \/ Call_wait_until_all_comands_have_been_executed
    \/ Loop_wait_until_all_comands_have_been_executed
    \/ Call_wait_for_trigger
    \/ Loop_wait_for_trigger
    \/ Arrive

Spec == Init /\ [][Next]_vars

(***************************************************************************)
(* A connection with either terminator, to a device that echoes each line  *)
(* it receives: a text is written, then read back.                         *)
(***************************************************************************)
CRLF == <<"\r", "\n">>
Terminations == {NEWLINE, CRLF}

\* Command texts: up to MaxText characters, a carriage return among them.
Texts == UNION {[1..n -> {"a", "b", "\r"}] : n \in 0..MaxText}

InitEcho ==
    /\ cls = "SCPISerialInstrument"
    /\ inst = [kind |-> "echo", noerror |-> "plain", idn |-> <<>>]
    /\ pc = "ready"
    /\ errq = <<>>
    /\ inbuf = <<>>
    /\ wire = <<>>
    /\ self_idn = None
    /\ io = <<>>
    /\ poll = NoPoll
    /\ port = Serial_kwargs
    /\ trac = NoTrac
    /\ \E cmd \in Texts, termination \in Terminations :
          /\ ~IsSubstring(termination, cmd)
          /\ last = [op |-> "", cmd |-> cmd,
                     args |-> [termination |-> termination],
                     timeout |-> None, quiet |-> TRUE, exc |-> NoException,
                     ret |-> None, t |-> 0]

\* write_without_checking_errors(cmd); the device sends the line back.
Echo_write_without_checking_errors ==
    /\ pc = "ready"
    /\ last.op = ""
    /\ inbuf' = <<Encode(last.cmd, last.args.termination)>>
    /\ last' = [last EXCEPT !.op = "write_without_checking_errors"]
    /\ UNCHANGED <<cls, inst, pc, errq, wire, self_idn, io, poll, port, trac>>

Echo_read_without_checking_errors ==
    /\ pc = "ready"
    /\ inbuf # <<>>
    /\ inbuf' = Tail(inbuf)
    /\ last' = [last EXCEPT
                    !.op = "read_without_checking_errors",
                    !.ret = Decode(Head(inbuf), last.args.termination)]
    /\ UNCHANGED <<cls, inst, pc, errq, wire, self_idn, io, poll, port, trac>>

NextEcho ==
    \/ Echo_write_without_checking_errors
    \/ Echo_read_without_checking_errors

SpecEcho == InitEcho /\ [][NextEcho]_vars

(***************************************************************************)
(* Agilent33250A, either module, loading waveforms over any serial port.   *)
(***************************************************************************)
InitWaveform ==
    /\ cls \in {"Agilent33250A", "Agilent33250A_legacy"}
    /\ inst \in {i \in Instruments : i.kind = "prompt" /\ i.idn = IdnAgilent}
    /\ port \in SerialPorts
    /\ trac = NoTrac
    /\ Fresh

NextWaveform ==
    \/ Connect
    \/ Call_load_arbitrary_waveform
    \/ Call_load_arbitrary_waveform_samples
    \/ Call_load_arbitrary_waveform_samples_in_binary_format
    \/ Call_configure_arbitrary_waveform

SpecWaveform == InitWaveform /\ [][NextWaveform]_vars

(***************************************************************************)
(* Keithley2700 taking readings from an instrument whose buffer fills at   *)
(* one of the rates Growths, or never.                                     *)
(***************************************************************************)
Growths == {0, 16, 80}

InitKeithley2700 ==
    /\ cls = "Keithley2700"
    /\ inst \in {i \in Instruments : i.kind = "prompt"}
    /\ port = [Serial_kwargs EXCEPT !.is_open = FALSE]
    /\ trac \in [stored : {0}, growth : Growths, points : {0}]
    /\ Fresh

NextKeithley2700 ==
    \/ Connect
    \/ Call_measure_N_samples_using_the_buffer
    \/ Loop_measure_N_samples_using_the_buffer

SpecKeithley2700 == InitKeithley2700 /\ [][NextKeithley2700]_vars

\* The method runs on: a loop that can make its next iteration makes it
\* (every read ends, by a line or by the read timeout).
FairKeithley2700 ==
    SpecKeithley2700 /\ WF_vars(Loop_measure_N_samples_using_the_buffer)

(***************************************************************************)
(* Vocabulary of the properties.                                           *)
(***************************************************************************)
\* The commands transmitted by the call, in order.
TxCmds(log) ==
    LET tx == SelectSeq(log, LAMBDA e : e.dir = "tx")
    IN  [i \in 1..Len(tx) |-> tx[i].cmd]

\* The lines read by the call, in order.
RxLines(log) ==
    LET rx == SelectSeq(log, LAMBDA e : e.dir = "rx")
    IN  [i \in 1..Len(rx) |-> rx[i].line]

\* A SYST:ERR? reply is <code>,"<message>": the reply has a quoted message.
HasMessage(reply) ==
    Cardinality({i \in 1..Len(reply) : reply[i] = "\""}) >= 2

\* The message of a SYST:ERR? reply: the text between its quotes.
MessageOf(reply) ==
    LET quotes == {i \in 1..Len(reply) : reply[i] = "\""}
        first == CHOOSE i \in quotes : \A j \in quotes : i <= j
        final == CHOOSE i \in quotes : \A j \in quotes : j <= i
    IN  SubSeq(reply, first + 1, final - 1)

\* The clean state of the error queue, as the error-queue protocol defines
\* it: the message is "No error", compared case-insensitively, whatever
\* the code.
IsCleanReply(reply) ==
    HasMessage(reply) /\ Lower(MessageOf(reply)) = Lower(NO_ERROR)

\* An entry of the error queue that reports an error.
IsErrorEntry(reply) == HasMessage(reply) /\ ~IsCleanReply(reply)

\* The call last made has ended.
Ended(op) == pc = "ready" /\ last.op = op

IdentitySites ==
    {"instrument_manufacturer", "instrument_model",
     "instrument_serial_number"}

C2_QueryReadsBeforeErrorCheck ==
    Ended("query") =>
        /\ Len(io) = 4
        /\ io[1] = Tx(last.cmd)
        /\ io[2].dir = "rx"
        /\ io[3] = Tx("SYST:ERR?")
        /\ io[4].dir = "rx"
        /\ last.exc = NoException => last.ret = io[2].line

\* A query returned the instrument's answer, not the reply to SYST:ERR?.
C2_Witness ==
    /\ Ended("query")
    /\ last.cmd = "FREQ?"
    /\ last.exc = NoException
    /\ last.ret = ReplyFreq
    /\ IsCleanReply(io[4].line)

(***************************************************************************)
(* C3: identity is memoized.  A call of idn made when nothing is cached    *)
(* transmits *IDN? once (and the error check's SYST:ERR?) and, when it     *)
(* returns, caches what it returns.  Once a value is cached no call        *)
(* changes it, and a call of idn returns it with no transport write and no *)
(* transport read.                                                         *)
(***************************************************************************)
C3_IdentityMemoized ==
    [][/\ (self_idn = None /\ Call_idn) =>
            /\ TxCmds(io') = <<"*IDN?", "SYST:ERR?">>
            /\ last'.exc = NoException => self_idn' = Some(last'.ret)
            /\ last'.exc # NoException => self_idn' = None
       /\ self_idn # None => self_idn' = self_idn
       /\ (self_idn # None /\ Call_idn) =>
            /\ io' = <<>>
            /\ last'.exc = NoException
            /\ last'.ret = self_idn[1]
            /\ <<errq', inbuf', wire'>> = <<errq, inbuf, wire>>]_vars

\* A later call of idn returned the cached identity without any I/O.
C3_Witness ==
    /\ Ended("idn")
    /\ self_idn = Some(inst.idn)
    /\ last.ret = inst.idn
    /\ io = <<>>

(***************************************************************************)
(* C4: in every instrument class, check_whether_error succeeds if and only *)
(* if the message of the SYST:ERR? reply is "No error", compared           *)
(* case-insensitively, whatever the code or its sign.                      *)
(***************************************************************************)
C4_CheckSucceedsIffNoErrorMessage ==
    Ended("check_whether_error") =>
        (last.exc = NoException <=> IsCleanReply(io[2].line))

(***************************************************************************)
(* C5: whenever an error-checked write returns without raising, the        *)
(* instrument's error queue is empty.                                      *)
(***************************************************************************)
C5_ErrorQueueEmptyAfterWrite ==
    (Ended("write") /\ last.exc = NoException) => errq = <<>>

(***************************************************************************)
(* C6: an error-checked call (write, read, query) raises the instrument    *)
(* error only when the instrument reported an error entry; when the read   *)
(* of the SYST:ERR? reply timed out (the empty string) the call fails with *)
(* a timeout error instead.  Stated for calls that start with nothing      *)
(* pending and send no query of their own, so that the line the error      *)
(* check reads can only be the reply to its SYST:ERR? or nothing.          *)
(***************************************************************************)
C6_TimeoutIsNotAnInstrumentError ==
    (/\ pc = "ready"
     /\ last.op \in {"write", "read", "query"}
     /\ last.quiet
     /\ last.cmd # "FREQ?"
     /\ last.exc # NoException) =>
        LET reply == io[Len(io)].line
        IN  IF reply = <<>>
            THEN last.exc.type = "TimeoutError"
            ELSE IsErrorEntry(reply)

(***************************************************************************)
(* C7: when an expectation (manufacturer, model, serial number) given at   *)
(* connect time does not occur, case-insensitively, in the identity,       *)
(* construction fails at the identity check and nothing is transmitted     *)
(* after the identity query (no *RST); when every given expectation        *)
(* occurs, construction does not fail at the identity check.               *)
(***************************************************************************)
C7_IdentityMismatchFailsFast ==
    (last.op = "__init__" /\ self_idn # None) =>
        LET a == last.args
            given == {a.instrument_manufacturer, a.instrument_model,
                      a.instrument_serial_number} \ {None}
            Occurs(e) == IsSubstring(Lower(e[1]), Lower(self_idn[1]))
            sent == TxCmds(io)
        IN  IF \E e \in given : ~Occurs(e)
            THEN /\ pc = "failed"
                 /\ last.exc.type = "RuntimeError"
                 /\ last.exc.site \in IdentitySites
                 /\ SubSeq(sent, Len(sent) - 1, Len(sent))
                        = <<"*IDN?", "SYST:ERR?">>
                 /\ \A i \in 1..Len(sent) : sent[i] # "*RST"
            ELSE last.exc.site \notin IdentitySites

\* Construction with reset_upon_connection failed at the model check: the
\* identity was fetched and no *RST was sent.
C7_Witness ==
    /\ last.op = "__init__"
    /\ pc = "failed"
    /\ last.exc.site = "instrument_model"
    /\ last.args.reset_upon_connection
    /\ self_idn = Some(inst.idn)
    /\ \A i \in 1..Len(io) : io[i] # Tx("*RST")

(***************************************************************************)
(* C8: wait_until_all_comands_have_been_executed transmits exactly *WAI    *)
(* and then *IDN? and after that only reads, whether or not the identity   *)
(* was cached before the call; it returns only after reading a line equal  *)
(* to the cached identity and otherwise fails with a timeout error.        *)
(***************************************************************************)
C8_WaitSendsOnlyWaiAndIdn ==
    last.op = "wait_until_all_comands_have_been_executed" =>
        /\ TxCmds(io) = <<"*WAI", "*IDN?">>
        /\ (pc = "ready" /\ last.exc = NoException) =>
              /\ self_idn # None
              /\ io[Len(io)] = Rx(self_idn[1])
        /\ (pc = "ready" /\ last.exc # NoException) =>
              last.exc.site = "wait_until_all_comands_have_been_executed"

(***************************************************************************)
(* C9: against an instrument that answers *OPC? with "1" and has no queued *)
(* error, wait_for_trigger returns normally: no error check consumes the   *)
(* reply to *OPC? or misreads it as an error.  The instrument is one whose *)
(* clean reply, +0,"No error", the class accepts.                          *)
(***************************************************************************)
C9_OpcReplyReachesThePollingRead ==
    (/\ Ended("wait_for_trigger")
     /\ inst.kind = "prompt"
     /\ inst.noerror = "signed"
     /\ last.quiet) =>
        /\ last.exc = NoException
        /\ \E i \in 1..Len(io) : io[i] = Rx(ReplyOpc)
        /\ \A i \in 2..Len(io) :
              (io[i - 1] = Tx("SYST:ERR?") /\ io[i].dir = "rx")
                  => io[i].line # ReplyOpc

(***************************************************************************)
(* C10: wait_for_trigger with a finite timeout against an instrument that  *)
(* never answers raises TimeoutError and no other error.                   *)
(***************************************************************************)
C10_MuteInstrumentGivesTimeoutError ==
    (/\ Ended("wait_for_trigger")
     /\ inst.kind = "mute"
     /\ last.timeout # None) =>
        last.exc.type = "TimeoutError"

(***************************************************************************)
(* C11: wait_for_trigger called with a should_stop that is true returns    *)
(* normally at the first poll: it neither goes on polling after a read     *)
(* that timed out nor raises TimeoutError.                                 *)
(***************************************************************************)
C11_ShouldStopEndsTheWait ==
    (last.op = "wait_for_trigger" /\ last.args.should_stop) =>
        /\ ~(pc = "wait_for_trigger" /\ poll.elapsed > 0)
        /\ last.exc.type # "TimeoutError"

(***************************************************************************)
(* C12: every polling wait that has started ends, by returning or by       *)
(* raising, whatever its timeout argument (None, the default, included).   *)
(***************************************************************************)
PollingWaits ==
    {"wait_until_all_comands_have_been_executed", "wait_for_trigger",
     "measure_N_samples_using_the_buffer"}

C12_PollingWaitsTerminate == (pc \in PollingWaits) ~> (pc = "ready")

(***************************************************************************)
(* C13: in measure_N_samples_using_the_buffer the first sleep is 0.01 s,   *)
(* each later sleep is twice the one before until the cap is reached and   *)
(* equal to it afterwards, so the sleeps never decrease and never exceed   *)
(* the cap; the loop goes on exactly while the reported byte count is      *)
(* below the target, so a buffer that gains a fifth of the target per poll *)
(* is polled 5 times with the sleeps 0.01, 0.02, 0.04, 0.08.               *)
(***************************************************************************)
\* The value the sleep time stops at, in hundredths of a second.
SleepCap == 128

Acquiring == last.op = "measure_N_samples_using_the_buffer" /\ poll # NoPoll

\* The byte count the instrument reported at the poll last made.
Reported == trac.stored

Target == last.args.n_samples * BYTES_PER_SAMPLE

C13_BackoffDoublesToTheCap ==
    Acquiring =>
        /\ \A k \in 1..Len(poll.sleeps) :
              /\ poll.sleeps[k] <= SleepCap
              /\ poll.sleeps[k] =
                    IF k = 1 THEN 1
                    ELSE IF poll.sleeps[k - 1] < SleepCap
                    THEN 2 * poll.sleeps[k - 1]
                    ELSE poll.sleeps[k - 1]
        /\ (poll.polls <= MaxSleeps /\ last.exc = NoException) =>
              /\ Len(poll.sleeps) =
                    IF pc = "ready" THEN poll.polls - 1 ELSE poll.polls
              /\ pc = "measure_N_samples_using_the_buffer" =>
                    (poll.polls > 0 => Reported < Target)
              /\ pc = "ready" =>
                    /\ Reported >= Target
                    /\ Reported - trac.growth < Target
        /\ (/\ pc = "ready"
            /\ last.exc = NoException
            /\ Target = 5 * trac.growth) =>
              /\ poll.polls = 5
              /\ poll.sleeps = <<1, 2, 4, 8>>

C13_Witness ==
    /\ Acquiring
    /\ pc = "ready"
    /\ last.exc = NoException
    /\ last.args.n_samples = 5
    /\ trac.growth = 16
    /\ poll.polls = 5
    /\ poll.sleeps = <<1, 2, 4, 8>>

(***************************************************************************)
(* C14: a binary waveform transfer on a serial port with XON/XOFF flow     *)
(* control or with a parity other than none fails with nothing written to  *)
(* the port, whether it is started by                                      *)
(* load_arbitrary_waveform_samples_in_binary_format or by                  *)
(* configure_arbitrary_waveform with send_in_binary_format.                *)
(***************************************************************************)
BinaryTransfer ==
    \/ last.op = "load_arbitrary_waveform_samples_in_binary_format"
    \/ /\ last.op = "configure_arbitrary_waveform"
       /\ last.args.send_in_binary_format

C14_NoBinaryTransferOnUnfitPort ==
    (BinaryTransfer /\ (port.xonxoff \/ port.parity # PARITY_NONE)) =>
        /\ last.exc # NoException
        /\ io = <<>>

C14_Witness ==
    /\ last.op = "configure_arbitrary_waveform"
    /\ last.args.send_in_binary_format
    /\ last.args.samples = <<Run(3, 1), Run(-2, 1)>>
    /\ port.xonxoff
    /\ last.exc.type = "RuntimeError"
    /\ last.exc.text = XONXOFF_ENABLED
    /\ io = <<>>

(***************************************************************************)
(* C15: no message that carries samples is written with more samples than  *)
(* the instrument's memory holds (65536), and no binary one carries a      *)
(* sample outside [-2047, 2047].                                           *)
(***************************************************************************)
\* The messages of the call that carry samples.
DataFrames == {i \in 1..Len(io) : "data" \in DOMAIN io[i]}
IsBinary(frame) == "payload" \in DOMAIN frame.data

\* The 16-bit two's complement number of two bytes, high byte first.
Signed16(bytes) ==
    LET v == bytes[1] * 256 + bytes[2] IN IF v >= 32768 THEN v - 65536 ELSE v

C15_FramesFitTheInstrument ==
    \A i \in DataFrames :
        IF IsBinary(io[i])
        THEN /\ len(io[i].data.payload) <= MEMORY_SIZE
             /\ \A k \in 1..Len(io[i].data.payload) :
                  /\ -2047 <= Signed16(io[i].data.payload[k].value)
                  /\ Signed16(io[i].data.payload[k].value) <= 2047
        ELSE len(io[i].data.samples) <= MEMORY_SIZE

(***************************************************************************)
(* C16: the binary frame load_arbitrary_waveform_samples_in_binary_format  *)
(* writes for an accepted sample list is 'DATA:DAC VOLATILE, ', '#', one   *)
(* digit that is the number of digits of the length field, the length      *)
(* field, which is the payload's byte count 2*len(samples), the payload,   *)
(* which is every sample in order as a big-endian signed 16-bit integer,   *)
(* and the terminator; and an accepted list is written.                    *)
(***************************************************************************)
FrameHeader == SubSeq(DATA_DAC_VOLATILE, 1, Len(DATA_DAC_VOLATILE) - 2)

WellFormedFrame(frame, samples) ==
    LET h == Len(FrameHeader)
        text == frame.line
        field == SubSeq(text, h + 3, Len(text))
        payload == frame.data.payload
    IN  /\ Len(text) >= h + 3
        /\ SubSeq(text, 1, h) = FrameHeader
        /\ text[h + 1] = "#"
        /\ IsInt(<<text[h + 2]>>)
        /\ int(<<text[h + 2]>>) = Len(field)
        /\ IsInt(field)
        /\ int(field) = 2 * len(payload)
        /\ len(payload) = len(samples)
        /\ Len(payload) = Len(samples)
        /\ \A k \in 1..Len(payload) :
              /\ payload[k].count = samples[k].count
              /\ Len(payload[k].value) = 2
              /\ \A b \in 1..2 : payload[k].value[b] \in 0..255
              /\ Signed16(payload[k].value) = samples[k].value
        /\ frame.data.termination = message_termination_PC_to_instrument

Accepted(samples) ==
    /\ len(samples) <= MEMORY_SIZE
    /\ \A k \in 1..Len(samples) :
          -2047 <= samples[k].value /\ samples[k].value <= 2047

C16_BinaryFrameLayout ==
    last.op = "load_arbitrary_waveform_samples_in_binary_format" =>
        /\ \A i \in DataFrames : WellFormedFrame(io[i], last.args.samples)
        /\ (/\ Accepted(last.args.samples)
            /\ ~port.xonxoff
            /\ port.parity = PARITY_NONE
            /\ last.quiet) =>
              /\ last.exc = NoException
              /\ \E i \in DataFrames : io[i].cmd = "DATA:DAC VOLATILE"

C16_Witness ==
    /\ last.op = "load_arbitrary_waveform_samples_in_binary_format"
    /\ last.args.samples = <<Run(-1, MEMORY_SIZE)>>
    /\ last.exc = NoException
    /\ \E i \in DataFrames :
          /\ io[i].line = DATA_DAC_VOLATILE \o <<"1", "3", "1", "0", "7", "2">>
          /\ io[i].data.payload = <<Run(<<255, 255>>, MEMORY_SIZE)>>

(***************************************************************************)
(* C17: a text with no terminator sequence in it, written with a           *)
(* terminator and read back with the same terminator, is read as the text  *)
(* that was written.                                                       *)
(***************************************************************************)
C17_RoundTrip ==
    (last.op = "read_without_checking_errors" /\ inst.kind = "echo") =>
        last.ret = last.cmd

(***************************************************************************)
(* C18: when the construction of a connection has failed, the serial port  *)
(* it opened is closed.                                                    *)
(***************************************************************************)
C18_PortClosedWhenConstructionFails == pc = "failed" => ~port.is_open

(***************************************************************************)
(* C19: reset() transmits *RST and nothing else, reads nothing, returns    *)
(* when the settle interval has elapsed and never raises, whatever the     *)
(* instrument's error queue holds.                                         *)
(***************************************************************************)
C19_ResetSendsRstAndSettles ==
    Ended("reset") =>
        /\ io = <<Tx("*RST")>>
        /\ last.exc = NoException
        /\ last.t >= RESET_SLEEP_TIME

C19_Witness ==
    /\ Ended("reset")
    /\ errq # <<>>
    /\ io = <<Tx("*RST")>>
    /\ last.exc = NoException
    /\ last.t = RESET_SLEEP_TIME

(***************************************************************************)
(* C20: when wait_until_all_comands_have_been_executed or wait_for_trigger *)
(* ends with its timeout error and no line arrived during the wait, no     *)
(* more than the timeout plus one read timeout of the serial port has      *)
(* passed since the wait started.                                          *)
(***************************************************************************)
TimedOut ==
    /\ pc = "ready"
    /\ last.timeout # None
    /\ \/ /\ last.op = "wait_until_all_comands_have_been_executed"
          /\ last.exc.type = "RuntimeError"
          /\ last.exc.site = "wait_until_all_comands_have_been_executed"
       \/ /\ last.op = "wait_for_trigger"
          /\ last.exc.type = "TimeoutError"

\* Every read of the wait's loop timed out (the reads before the loop are
\* the one of wait_for_trigger's error-checked write and none in
\* wait_until_all_comands_have_been_executed).
NothingArrived ==
    \A i \in 1..Len(io) :
        (/\ io[i].dir = "rx"
         /\ i > (IF last.op = "wait_for_trigger" THEN 3 ELSE 2)) =>
            io[i].line = <<>>

C20_OvershootAtMostOneReadTimeout ==
    (TimedOut /\ NothingArrived) => last.t <= last.timeout[1] + ReadTimeout

(***************************************************************************)
(* C21: the commands __init__ sends are, in this order, *CLS with its      *)
(* error check (when clear_status_upon_connection), one *IDN? query with   *)
(* its error check (when a manufacturer, model or serial number is given,  *)
(* and one only however many are given), and *RST (when                    *)
(* reset_upon_connection). A construction that raises stops at the end of  *)
(* the step that failed: after the *CLS check when that check read         *)
(* anything but a no-error reply, never after *RST. With no expectation    *)
(* no *IDN? is sent.                                                       *)
(***************************************************************************)
ClearStep(a) ==
    IF a.clear_status_upon_connection THEN <<"*CLS", "SYST:ERR?">> ELSE <<>>

IdentityStep(a) ==
    IF \/ a.instrument_manufacturer # None
       \/ a.instrument_model # None
       \/ a.instrument_serial_number # None
    THEN <<"*IDN?", "SYST:ERR?">> ELSE <<>>

ResetStep(a) == IF a.reset_upon_connection THEN <<"*RST">> ELSE <<>>

Constructed == last.op = "__init__" /\ pc \in {"ready", "failed"}

C21_ConstructionStepsInOrder ==
    Constructed =>
        LET a == last.args
            sent == TxCmds(io)
            lines == RxLines(io)
        IN  /\ last.exc = NoException =>
                sent = ClearStep(a) \o IdentityStep(a) \o ResetStep(a)
            /\ last.exc # NoException =>
                /\ sent # <<>>
                /\ sent \in {ClearStep(a), ClearStep(a) \o IdentityStep(a)}
            /\ (/\ a.clear_status_upon_connection
                /\ lines[1] \notin {ReplyNoErrorPlain, ReplyNoErrorSigned}) =>
                    /\ last.exc # NoException
                    /\ sent = ClearStep(a)
            /\ Cardinality({i \in 1..Len(sent) : sent[i] = "*IDN?"}) <= 1

C21_Witness ==
    /\ Constructed
    /\ last.exc = NoException
    /\ last.args.instrument_manufacturer # None
    /\ last.args.instrument_model # None
    /\ last.args.instrument_serial_number # None
    /\ TxCmds(io) = <<"*CLS", "SYST:ERR?", "*IDN?", "SYST:ERR?", "*RST">>

(***************************************************************************)
(* C22: against an instrument that answers every query once, in order and  *)
(* at once, an operation of the engine that starts with nothing pending    *)
(* (no queued error, no unread reply) leaves no unread reply in the input  *)
(* buffer when it returns or raises. The caller's own write of a command   *)
(* that is a query is left aside.                                          *)
(***************************************************************************)
AlignedOperations ==
    {"query_without_checking_errors", "write", "read", "query",
     "check_whether_error", "wait_until_all_comands_have_been_executed",
     "wait_for_trigger"}

C22_NoReplyLeftUnread ==
    (/\ inst.kind = "prompt"
     /\ pc = "ready"
     /\ last.op \in AlignedOperations
     /\ ~(last.op = "write" /\ last.cmd = "FREQ?")
     /\ last.quiet) =>
        inbuf = <<>> /\ wire = <<>>

(***************************************************************************)
(* C23: on an instrument that answers at once, when an unchecked command   *)
(* that the instrument rejects was sent with nothing pending, the          *)
(* error-checked call of a valid command made next (write of a valid       *)
(* setting, query of a valid query) does not raise: the error entry of the *)
(* earlier command is not reported as its failure.                         *)
(***************************************************************************)
UncheckedCommandRejected ==
    /\ inst.kind = "prompt"
    /\ pc = "ready"
    /\ last.op = "write_without_checking_errors"
    /\ last.cmd = "FUNC FOO"
    /\ last.quiet

ValidCommandChecked ==
    \/ last'.op = "write" /\ last'.cmd = "FUNC SIN"
    \/ last'.op = "query" /\ last'.cmd = "FREQ?"

C23_EarlierErrorNotBlamedOnValidCommand ==
    [][(UncheckedCommandRejected /\ ValidCommandChecked) =>
            last'.exc = NoException]_vars
====
